---- MODULE Spec2Model ----
(***************************************************************************)
(* goroam2obs (src/main.go): conversion of a Roam JSON export to Obsidian  *)
(* markdown in three passes.  Strings are modelled as sequences of         *)
(* one-character strings, so that the regular expressions, the date        *)
(* parser and the string surgery of the program are computed character by  *)
(* character.                                                              *)
(***************************************************************************)
EXTENDS Integers, Sequences, FiniteSets, TLC

(***************************************************************************)
(* Bounds of the model.                                                    *)
(***************************************************************************)
\* number of markup pieces concatenated into a block text of the input
MaxPieces == 3
\* the count of diagnostic lines is kept up to this value (it saturates)
MaxDiag == 3
\* depth of the block chain of the structured input pages
MaxDepth == 3
\* largest heading level of an input block
MaxHeading == 2

(***************************************************************************)
(* Strings.                                                                *)
(***************************************************************************)
Range(s) == {s[i] : i \in 1..Len(s)}

\* s[lo:hi] of Go: the characters at 0-based offsets lo .. hi-1
Slice(s, lo, hi) == [i \in 1..(hi - lo) |-> s[lo + i]]

\* whether p occurs in s at 0-based offset off
StartsAt(s, off, p) ==
    /\ off >= 0
    /\ off + Len(p) <= Len(s)
    /\ \A i \in 1..Len(p) : s[off + i] = p[i]

\* strings.Repeat
RECURSIVE Repeat(_, _)
Repeat(s, n) == IF n <= 0 THEN <<>> ELSE s \o Repeat(s, n - 1)

\* strings.ReplaceAll for a one-character pattern
RECURSIVE ReplaceAllChar(_, _, _)
ReplaceAllChar(s, c, by) ==
    IF s = <<>> THEN <<>>
    ELSE (IF Head(s) = c THEN by ELSE <<Head(s)>>) \o ReplaceAllChar(Tail(s), c, by)

\* strings.Join
RECURSIVE Join(_, _)
Join(ss, sep) ==
    IF ss = <<>> THEN <<>>
    ELSE IF Len(ss) = 1 THEN ss[1]
    ELSE ss[1] \o sep \o Join(Tail(ss), sep)

NL == "\n"
Digits == <<"0", "1", "2", "3", "4", "5", "6", "7", "8", "9">>
DigitSet == Range(Digits)
LowerSet == {"a", "b", "c", "d", "e", "f", "g", "h", "i", "j", "k", "l", "m",
             "n", "o", "p", "q", "r", "s", "t", "u", "v", "w", "x", "y", "z"}
DigitVal(c) == (CHOOSE d \in 1..10 : Digits[d] = c) - 1

\* strconv of a decimal digit string
RECURSIVE Atoi(_)
Atoi(s) == IF s = <<>> THEN 0 ELSE 10 * Atoi(SubSeq(s, 1, Len(s) - 1)) + DigitVal(s[Len(s)])

\* n written with exactly w decimal digits (zero padded), as time.Format does
RECURSIVE Pad(_, _)
Pad(n, w) == IF w = 0 THEN <<>> ELSE Pad(n \div 10, w - 1) \o <<Digits[(n % 10) + 1]>>

(***************************************************************************)
(* The regular expressions and layouts (main.go:440-451).                  *)
(***************************************************************************)
MonthNames == <<
    <<"J", "a", "n", "u", "a", "r", "y">>,
    <<"F", "e", "b", "r", "u", "a", "r", "y">>,
    <<"M", "a", "r", "c", "h">>,
    <<"A", "p", "r", "i", "l">>,
    <<"M", "a", "y">>,
    <<"J", "u", "n", "e">>,
    <<"J", "u", "l", "y">>,
    <<"A", "u", "g", "u", "s", "t">>,
    <<"S", "e", "p", "t", "e", "m", "b", "e", "r">>,
    <<"O", "c", "t", "o", "b", "e", "r">>,
    <<"N", "o", "v", "e", "m", "b", "e", "r">>,
    <<"D", "e", "c", "e", "m", "b", "e", "r">> >>

\* the length of a block UID in the three reference expressions: .{9}
UidLen == 9
\* the year of reDaily and reDayLink: [0-9]{4}
YearLen == 4
\* the ordinal suffix of reDaily and reDayLink: [a-z]{2}
SuffixLen == 2

EmbedOpen == <<"{", "{", "e", "m", "b", "e", "d", ":", " ", "(", "(">>
MentionsOpen == <<"{", "{", "m", "e", "n", "t", "i", "o", "n", "s", ":", " ", "(", "(">>
WrapClose == <<")", ")", "}", "}">>
RefOpen == <<"(", "(">>
RefClose == <<")", ")">>
LinkOpen == <<"[", "[">>
LinkClose == <<"]", "]">>
CommaSp == <<",", " ">>

\* regexList of replaceBlockRefs: reBlockEmbed, reBlockMentions, reBlockRef,
\* each an opening literal, nine characters matched by `.', a closing literal
regexList == <<
    [open |-> EmbedOpen, close |-> WrapClose],
    [open |-> MentionsOpen, close |-> WrapClose],
    [open |-> RefOpen, close |-> RefClose] >>

NoMatch == [nil |-> TRUE]

\* Values are bound by a quantifier or CHOOSE over a one-element set where a
\* LET would do: TLC evaluates a LET definition again at each use when it
\* computes ENABLED, and a bound variable only once.

\* whether regular expression re matches s at 0-based offset off
ReMatchesAt(re, s, off) ==
    /\ StartsAt(s, off, re.open)
    /\ off + Len(re.open) + UidLen <= Len(s)
    /\ \A i \in 1..UidLen : s[off + Len(re.open) + i] # NL
    /\ StartsAt(s, off + Len(re.open) + UidLen, re.close)

\* re.FindStringSubmatchIndex(s): the leftmost match; lo, hi are match[0],
\* match[1] and glo, ghi are match[4], match[5] (the second group)
FindStringSubmatchIndex(re, s) ==
    CHOOSE m \in
        {IF offs = {} THEN NoMatch
         ELSE CHOOSE r \in {[nil |-> FALSE, lo |-> lo,
                             hi |-> lo + Len(re.open) + UidLen + Len(re.close),
                             glo |-> lo + Len(re.open),
                             ghi |-> lo + Len(re.open) + UidLen] :
                            lo \in {o \in offs : \A p \in offs : o <= p}} : TRUE :
            offs \in {{off \in 0..Len(s) : ReMatchesAt(re, s, off)}}} : TRUE

\* the character class that opens the second group of reDayLink:
\* [January|February|...|December [0-9]
DayLinkClass ==
    UNION {Range(MonthNames[m]) : m \in 1..12} \cup {"|", " ", "["} \cup DigitSet

\* whether reDayLink matches s at offset off with k characters taken by the
\* class: \[\[ class+ [a-z]{2} ", " [0-9]{4} \]\]
DayLinkMatchesAt(s, off, k) ==
    LET g == off + Len(LinkOpen)
    IN  /\ StartsAt(s, off, LinkOpen)
        /\ g + k + SuffixLen + Len(CommaSp) + YearLen + Len(LinkClose) <= Len(s)
        /\ \A i \in 1..k : s[g + i] \in DayLinkClass
        /\ \A i \in 1..SuffixLen : s[g + k + i] \in LowerSet
        /\ StartsAt(s, g + k + SuffixLen, CommaSp)
        /\ \A i \in 1..YearLen : s[g + k + SuffixLen + Len(CommaSp) + i] \in DigitSet
        /\ StartsAt(s, g + k + SuffixLen + Len(CommaSp) + YearLen, LinkClose)

\* reDayLink.FindStringSubmatchIndex(s): leftmost start, greedy class
FindDayLink(s) ==
    CHOOSE m \in
        {IF cands = {} THEN NoMatch
         ELSE CHOOSE r \in
                {[nil |-> FALSE, lo |-> c[1],
                  hi |-> c[1] + Len(LinkOpen) + c[2] + SuffixLen + Len(CommaSp) + YearLen
                         + Len(LinkClose),
                  glo |-> c[1] + Len(LinkOpen),
                  ghi |-> c[1] + Len(LinkOpen) + c[2] + SuffixLen + Len(CommaSp) + YearLen] :
                 c \in {d \in cands : \A e \in cands :
                            d[1] < e[1] \/ (d[1] = e[1] /\ d[2] >= e[2])}} : TRUE :
            cands \in {{c \in {off \in 0..Len(s) : StartsAt(s, off, LinkOpen)} \X (1..Len(s)) :
                          DayLinkMatchesAt(s, c[1], c[2])}}} : TRUE

\* reDaily.FindAllStringSubmatch(in, -1): the expression is anchored at both
\* ends, so there is at most one match; row[1], row[2], row[3] are the month,
\* the day digits and the year digits
FindDaily(in) ==
    {r \in [m : {m \in 1..12 : StartsAt(in, 0, MonthNames[m] \o <<" ">>)}, nd : 1..Len(in)] :
        \E d0 \in {Len(MonthNames[r.m]) + 1} :
            /\ Len(in) = d0 + r.nd + SuffixLen + Len(CommaSp) + YearLen
            /\ \A i \in 1..r.nd : in[d0 + i] \in DigitSet
            /\ \A i \in 1..SuffixLen : in[d0 + r.nd + i] \in LowerSet
            /\ StartsAt(in, d0 + r.nd + SuffixLen, CommaSp)
            /\ \A i \in 1..YearLen : in[d0 + r.nd + SuffixLen + Len(CommaSp) + i] \in DigitSet}

IsLeap(y) == (y % 4 = 0) /\ ((y % 100 # 0) \/ (y % 400 = 0))
DaysIn(m, y) ==
    IF m = 2 THEN (IF IsLeap(y) THEN 29 ELSE 28)
    ELSE IF m \in {4, 6, 9, 11} THEN 30 ELSE 31

\* time.Parse(roamDailyLayout, "<month> <day> <year>") of a row of reDaily:
\* the element _2 takes one or two digits and the space of the layout must
\* follow them; the day is checked against the month and the year
ParsesAsDate(row, day, year) ==
    /\ row.nd <= 2
    /\ day >= 1
    /\ day <= DaysIn(row.m, year)

\* t.Format(obsDailyLayout)
FormatDate(year, month, day) ==
    Pad(year, 4) \o <<"-">> \o Pad(month, 2) \o <<"-">> \o Pad(day, 2)

\* the day and the year of a row of reDaily, as numbers
RowDate(in, row) ==
    [day |-> Atoi(Slice(in, Len(MonthNames[row.m]) + 1, Len(MonthNames[row.m]) + 1 + row.nd)),
     year |-> Atoi(Slice(in, Len(in) - YearLen, Len(in)))]

\* parseRoamDate: [out, ok, err]
parseRoamDate(in) ==
    CHOOSE res \in
        {IF Cardinality(match) # 1 THEN [out |-> in, ok |-> FALSE, err |-> FALSE]
         ELSE CHOOSE r \in
                {IF ~ParsesAsDate(rd[1], rd[2].day, rd[2].year)
                 THEN [out |-> <<>>, ok |-> FALSE, err |-> TRUE]
                 ELSE [out |-> FormatDate(rd[2].year, rd[1].m, rd[2].day),
                       ok |-> TRUE, err |-> FALSE] :
                 rd \in {<<row, RowDate(in, row)>> : row \in match}} : TRUE :
            match \in {FindDaily(in)}} : TRUE

(***************************************************************************)
(* The data model (main.go:326-404) and the input documents.               *)
(***************************************************************************)
\* Child, as decoded from JSON (the fields the passes read)
Blk(uid, str, heading, kids) ==
    [UID |-> uid, String |-> str, Heading |-> heading, RawChildren |-> kids]

\* Page, as decoded from JSON: IsDaily is not a JSON field and starts false
Pg(title, kids) == [Title |-> title, RawChildren |-> kids, IsDaily |-> FALSE]

Str_BuyMilk == <<"B", "u", "y", " ", "m", "i", "l", "k">>
Str_Notes == <<"N", "o", "t", "e", "s">>
Str_x == <<"x">>
Str_Multi == <<"a", NL, "b">>
Str_Md == <<".", "m", "d">>

\* "<Month> <day><suffix>, <year>"
DailyTitle(m, day, year) == MonthNames[m] \o <<" ">> \o day \o <<"t", "h">> \o CommaSp \o year
Str_Jan5 == DailyTitle(1, <<"5">>, <<"2", "0", "2", "4">>)
Str_Feb29 == DailyTitle(2, <<"2", "9">>, <<"2", "0", "2", "4">>)
Str_Feb30 == DailyTitle(2, <<"3", "0">>, <<"2", "0", "2", "4">>)
\* accepted by reDayLink, not by reDaily
Str_Jan5Abbrev == <<"J", "a", "n", " ", "5", "t", "h">> \o CommaSp \o <<"2", "0", "2", "4">>

\* block UIDs: U1 and U2 are the referenced blocks, UX is in no document
U1 == <<"a", "b", "c", "1", "2", "3", "4", "5", "6">>
U2 == <<"d", "e", "f", "1", "2", "3", "4", "5", "6">>
UX == <<"z", "z", "z", "9", "9", "9", "9", "9", "9">>
SrcUid(k) == <<"s", "r", "c", "0", "0", "0", "0", "0", Digits[k + 1]>>
LeafUid(k) == <<"l", "e", "a", "f", "0", "0", "0", "0", Digits[k + 1]>>

Embed(uid) == EmbedOpen \o uid \o WrapClose
Mentions(uid) == MentionsOpen \o uid \o WrapClose
Ref(uid) == RefOpen \o uid \o RefClose
DayLink(inner) == LinkOpen \o inner \o LinkClose

\* the pieces of reference markup a block text is made of
RefPieces ==
    {Embed(U1), Mentions(U1), Ref(U1), Embed(UX), Mentions(UX), Ref(UX),
     DayLink(Str_Jan5), DayLink(Str_Jan5Abbrev)}

\* the texts of at most n pieces
RECURSIVE TextsUpTo(_)
TextsUpTo(n) ==
    IF n = 0 THEN {<<>>}
    ELSE LET shorter == TextsUpTo(n - 1)
         IN  shorter \cup {p \o t : p \in RefPieces, t \in shorter}

\* single-piece texts, with the plain, multi-line and invalid-date ones and
\* a reference to a block whose text holds a reference
ShortTexts ==
    RefPieces \cup {Str_x, Str_Multi, DayLink(Str_Feb30), Str_x \o Ref(U1) \o Str_x,
                    Embed(U2)}

TargetBlock == Blk(U1, Str_BuyMilk, 0, <<>>)
NestedBlock == Blk(U2, Embed(U1), 0, <<>>)
SourceBlock(text) == Blk(SrcUid(0), text, 0, <<>>)
\* the blocks of the page that is referred to
TargetBlocks(text) == IF text = Embed(U2) THEN <<TargetBlock, NestedBlock>> ELSE <<TargetBlock>>

\* documents whose referencing block has a text of up to MaxPieces pieces
RefCorpora ==
    {<<Pg(Str_Notes, <<TargetBlock>>), Pg(Str_Jan5, <<SourceBlock(t)>>)>> :
        t \in TextsUpTo(MaxPieces)}

\* documents that vary the titles and the place of the referencing block
TargetTitles == {Str_Jan5, Str_Notes, Str_Feb30}
SourceTitles == {Str_Notes, Str_Feb29, <<>>}
LayoutCorpora ==
    UNION {
        {<<Pg(tt, TargetBlocks(t)), Pg(st, <<SourceBlock(t)>>)>>,
         <<Pg(st, <<SourceBlock(t)>>), Pg(tt, TargetBlocks(t))>>,
         <<Pg(tt, TargetBlocks(t) \o <<SourceBlock(t)>>)>>,
         <<Pg(tt, <<SourceBlock(t)>> \o TargetBlocks(t))>>} :
        tt \in TargetTitles, st \in SourceTitles, t \in ShortTexts}

\* a chain of nested blocks, levels k .. d, each level with a leaf sibling
RECURSIVE Chain(_, _, _, _)
Chain(k, d, h, text) ==
    <<Blk(SrcUid(k), text, h, IF k < d THEN Chain(k + 1, d, h, text) ELSE <<>>),
      Blk(LeafUid(k), Str_x, h, <<>>)>>

\* documents that vary the nesting and the headings
TreeCorpora ==
    {<<Pg(Str_Notes, Chain(0, d, h, t) \o <<TargetBlock>>)>> :
        d \in 0..MaxDepth, h \in 0..MaxHeading, t \in {Str_x, Str_Multi, Embed(U1)}}

\* the empty document, a page without blocks, and a document in which two
\* blocks have the same UID (no block text of any document refers to itself,
\* directly or through other blocks)
EdgeCorpora ==
    {<<>>,
     <<Pg(Str_Notes, <<>>)>>,
     <<Pg(Str_Notes, <<TargetBlock>>),
       Pg(Str_Jan5, <<Blk(U1, Str_x, 0, <<>>), SourceBlock(Embed(U1))>>)>>}

Corpora == RefCorpora \cup LayoutCorpora \cup TreeCorpora \cup EdgeCorpora

(***************************************************************************)
(* The state of a run (main.go:31-58).                                     *)
(***************************************************************************)
VARIABLES
    input,          \* the pages as loadJSON returned them (never written)
    pages,          \* the pages slice of run; pass1 rewrites the titles
    uidBlock,       \* map[string]Child built by pass1
    referencedUID,  \* map[string]struct{} shared by pass2 and pass3
    discovered,     \* referencedUID as it stood when pass2 returned
    phase,          \* the pass that is running: 1, 2 or 3 (0: none yet)
    pc,             \* the position inside the pass
    pi,             \* index of the page the pass is at
    frames,         \* the call stack of expandChildren
    cur,            \* the locals of expandChildren for the current child
    update,         \* the string being rewritten
    ri,             \* index into regexList of the inner loop
    match,          \* the last result of FindStringSubmatchIndex
    diag,           \* diagnostic lines printed for the current block text
    lines,          \* the lines expandChildren has produced for the page: s is
                    \* the line, the other fields say which child it is for
    dirs,           \* the directories MkdirAll has made
    files,          \* the files WriteFile has written: path -> data
    bar             \* the progress bar of each pass: pages done

vars == <<input, pages, uidBlock, referencedUID, discovered, phase, pc, pi, frames,
          cur, update, ri, match, diag, lines, dirs, files, bar>>

outDir == "out"
IndentWidth == 4
EmptyMap == [k \in {} |-> TRUE]
NoChild == [child |-> Blk(<<>>, <<>>, 0, <<>>), level |-> 0, prefix |-> <<>>, postfix |-> <<>>]

Init ==
    /\ input \in Corpora
    /\ pages = <<>>
    /\ uidBlock = EmptyMap
    /\ referencedUID = {}
    /\ discovered = {}
    /\ phase = 0
    /\ pc = "load"
    /\ pi = 1
    /\ frames = <<>>
    /\ cur = NoChild
    /\ update = <<>>
    /\ ri = 1
    /\ match = NoMatch
    /\ diag = 0
    /\ lines = <<>>
    /\ dirs = {}
    /\ files = EmptyMap
    /\ bar = [p \in 1..3 |-> 0]

\* run checks the configuration and loads the pages (main.go:32-45); either
\* may fail, and then run returns the error
Load ==
    /\ pc = "load"
    /\ \E ok \in BOOLEAN :
        IF ok
        THEN /\ pages' = input
             /\ phase' = 1
             /\ pc' = "page"
        ELSE /\ pc' = "error"
             /\ UNCHANGED <<pages, phase>>
    /\ UNCHANGED <<input, uidBlock, referencedUID, discovered, pi, frames, cur, update,
                   ri, match, diag, lines, dirs, files, bar>>

(***************************************************************************)
(* Pass 1 (main.go:221-264).                                               *)
(***************************************************************************)
\* collectBlocks: every block of the page, with a copy of *page, by UID
RECURSIVE collectBlocks(_, _, _)
collectBlocks(uidList, page, children) ==
    IF children = <<>> THEN uidList
    ELSE LET child == Head(children)
             withChild == (child.UID :> [UID |-> child.UID, String |-> child.String,
                                         Page |-> page]) @@ uidList
         IN  collectBlocks(collectBlocks(withChild, page, child.RawChildren),
                           page, Tail(children))

\* parsePageDate(&page): the title to store, the IsDaily flag it sets on the
\* page it was handed, and the error
parsePageDate(page) ==
    CHOOSE res \in
        {[title |-> r.out, page |-> [page EXCEPT !.IsDaily = page.IsDaily \/ r.ok],
          err |-> r.err] : r \in {parseRoamDate(page.Title)}} : TRUE

\* what the loop body of pass1 stores into pages[i]: the loop variable `page'
\* is a copy of pages[i], and only the title is written back
Pass1Store(slot, title) == [slot EXCEPT !.Title = title]

\* the page the blocks of the index carry: the loop variable, whose title
\* parsePageDate has not changed
Pass1IndexPage(page) == [Title |-> page.Title, IsDaily |-> page.IsDaily]

\* a loop over the pages that stops one page early
Pass1LoopDoneEarly(i, n) == i >= n

\* whether the loop of pass1 over the pages is over
Pass1LoopDone(i, n) == i > n

Pass1Page ==
    /\ phase = 1 /\ pc = "page" /\ ~Pass1LoopDone(pi, Len(pages))
    /\ \E r \in {parsePageDate(pages[pi])} :
           IF r.err
           THEN /\ pc' = "error"
                /\ UNCHANGED <<pages, uidBlock, pi, bar>>
           ELSE /\ pages' = [pages EXCEPT ![pi] = Pass1Store(pages[pi], r.title)]
                /\ uidBlock' = collectBlocks(uidBlock, Pass1IndexPage(r.page),
                                             r.page.RawChildren)
                /\ bar' = [bar EXCEPT ![1] = @ + 1]
                /\ pi' = pi + 1
                /\ pc' = "page"
    /\ UNCHANGED <<input, referencedUID, discovered, phase, frames, cur, update, ri,
                   match, diag, lines, dirs, files>>

\* pass1 returns; run makes referencedUID and calls pass2
Pass1Done ==
    /\ phase = 1 /\ pc = "page" /\ Pass1LoopDone(pi, Len(pages))
    /\ phase' = 2
    /\ pi' = 1
    /\ referencedUID' = {}
    /\ UNCHANGED <<input, pages, uidBlock, discovered, pc, frames, cur, update, ri,
                   match, diag, lines, dirs, files, bar>>

(***************************************************************************)
(* expandChildren (main.go:115-159), replaceBlockRefs (161-196) and        *)
(* replaceDayLinks (198-219).                                              *)
(***************************************************************************)
\* a prefix whose bullet does not depend on the level
PrefixBulletAnywhere(level, heading, nkids) ==
    LET indent == IF level > 0 THEN Repeat(<<" ">>, IndentWidth * level) ELSE <<>>
        headed == IF heading > 0 THEN Repeat(<<"#">>, heading) \o <<" ">> \o indent
                  ELSE indent
    IN  IF nkids > 0 THEN headed \o <<"*", " ">> ELSE headed

\* the prefix of a child's line (main.go:119-131)
Prefix(level, heading, nkids) ==
    LET indent == IF level > 0 THEN Repeat(<<" ">>, IndentWidth * level) ELSE <<>>
        headed == IF heading > 0 THEN Repeat(<<"#">>, heading) \o <<" ">> \o indent
                  ELSE indent
    IN  IF nkids > 0 /\ level > 0 THEN headed \o <<"*", " ">> ELSE headed

\* a postfix that asks whether anything at all is referenced
PostfixAnyReferenced(uid, referenced) ==
    IF referenced # {} THEN <<" ", "^">> \o uid ELSE <<>>

\* the postfix of a child's line (main.go:133-136)
Postfix(uid, referenced) ==
    IF uid \in referenced THEN <<" ", "^">> \o uid ELSE <<>>

\* the line of a child (main.go:143-146)
Line(prefix, updated, postfix) ==
    LET s == prefix \o updated \o postfix
    IN  IF NL \in Range(s) THEN ReplaceAllChar(s, NL, <<NL>> \o prefix) \o <<NL>> ELSE s

\* fmt.Sprintf("%s [[%s#^%s]]", child.String, child.Page.Title, child.UID)
Replacement(child) ==
    child.String \o <<" ">> \o LinkOpen \o child.Page.Title \o <<"#", "^">> \o child.UID
        \o LinkClose

Top == frames[Len(frames)]

\* the loop of expandChildren takes the next child of the parent
ExpandChild ==
    /\ pc = "expand" /\ frames # <<>> /\ Top.i <= Len(Top.kids)
    /\ \E child \in {Top.kids[Top.i]} :
           /\ cur' = [child |-> child, level |-> Top.level,
                      prefix |-> Prefix(Top.level, child.Heading, Len(child.RawChildren)),
                      postfix |-> Postfix(child.UID, referencedUID)]
           /\ update' = child.String
    /\ ri' = 1
    /\ match' = NoMatch
    /\ diag' = 0
    /\ pc' = "refs"
    /\ UNCHANGED <<input, pages, uidBlock, referencedUID, discovered, phase, pi, frames,
                   lines, dirs, files, bar>>

\* the loop of expandChildren is over: return to the caller
ExpandReturn ==
    /\ pc = "expand" /\ frames # <<>> /\ Top.i > Len(Top.kids)
    /\ frames' = SubSeq(frames, 1, Len(frames) - 1)
    /\ pc' = IF Len(frames) = 1 THEN "pageEnd" ELSE "expand"
    /\ UNCHANGED <<input, pages, uidBlock, referencedUID, discovered, phase, pi, cur,
                   update, ri, match, diag, lines, dirs, files, bar>>

\* where the inner loop of replaceBlockRefs goes after the regular expression
\* at index r was handled without a break: the next one, or, after the last
\* one, the outer loop again (match is not nil there)
NextRegex(r) == IF r < Len(regexList) THEN r + 1 ELSE 1

\* one turn of the inner loop of replaceBlockRefs (main.go:170-188), and,
\* when it breaks, the test of the outer loop (190-192)
RefsTry ==
    /\ pc = "refs"
    /\ \E m \in {FindStringSubmatchIndex(regexList[ri], update)} :
           /\ match' = m
           /\ IF m.nil
              THEN /\ pc' = "days"
                   /\ ri' = 1
                   /\ UNCHANGED <<update, referencedUID, diag>>
              ELSE \E uid \in {Slice(update, m.glo, m.ghi)} :
                       /\ pc' = "refs"
                       /\ ri' = NextRegex(ri)
                       /\ IF uid \notin DOMAIN uidBlock
                          THEN /\ diag' = IF diag < MaxDiag THEN diag + 1 ELSE diag
                               /\ UNCHANGED <<update, referencedUID>>
                          ELSE /\ referencedUID' = referencedUID \cup {uid}
                               /\ update' = Slice(update, 0, m.lo)
                                            \o Replacement(uidBlock[uid])
                                            \o Slice(update, m.hi, Len(update))
                               /\ UNCHANGED diag
    /\ UNCHANGED <<input, pages, uidBlock, discovered, phase, pi, frames, cur, lines,
                   dirs, files, bar>>

\* replaceDayLinks: the match at the top of the loop (main.go:202-205); with
\* no match the text is returned and expandChildren appends the line and
\* descends into the child (main.go:143-150)
DayFind ==
    /\ pc = "days"
    /\ \E m \in {FindDayLink(update)} :
           /\ match' = m
           /\ IF m.nil
              THEN /\ lines' = Append(lines,
                                      [s |-> Line(cur.prefix, update, cur.postfix),
                                       uid |-> cur.child.UID, level |-> cur.level,
                                       heading |-> cur.child.Heading,
                                       nkids |-> Len(cur.child.RawChildren),
                                       text |-> update])
                   /\ frames' = Append([frames EXCEPT ![Len(frames)].i = @ + 1],
                                       [kids |-> cur.child.RawChildren, i |-> 1,
                                        level |-> cur.level + 1])
                   /\ pc' = "expand"
              ELSE /\ pc' = "rewrite"
                   /\ UNCHANGED <<lines, frames>>
    /\ UNCHANGED <<input, pages, uidBlock, referencedUID, discovered, phase, pi, cur,
                   update, ri, diag, dirs, files, bar>>

\* replaceDayLinks: the rewriting of the match (main.go:207-215)
DayRewrite ==
    /\ pc = "rewrite"
    /\ \E date \in {Slice(update, match.glo, match.ghi)} :
       \E r \in {parseRoamDate(date)} :
           IF r.err
           THEN /\ pc' = "error"
                /\ UNCHANGED update
           ELSE /\ update' = Slice(update, 0, match.lo) \o LinkOpen \o r.out
                             \o LinkClose \o Slice(update, match.hi, Len(update))
                /\ pc' = "days"
    /\ UNCHANGED <<input, pages, uidBlock, referencedUID, discovered, phase, pi, frames,
                   cur, ri, match, diag, lines, dirs, files, bar>>

(***************************************************************************)
(* Pass 2 (main.go:99-113).                                                *)
(***************************************************************************)
\* a pass 2 that stops after the first page
Pass2LoopDoneEarly(i, n) == i > n \/ i > 1

\* whether the loop of pass2 over the pages is over
Pass2LoopDone(i, n) == i > n

Pass2Page ==
    /\ phase = 2 /\ pc = "page" /\ ~Pass2LoopDone(pi, Len(pages))
    /\ frames' = <<[kids |-> pages[pi].RawChildren, i |-> 1, level |-> 0]>>
    /\ lines' = <<>>
    /\ pc' = "expand"
    /\ UNCHANGED <<input, pages, uidBlock, referencedUID, discovered, phase, pi, cur,
                   update, ri, match, diag, dirs, files, bar>>

\* expandChildren has returned: its lines are dropped
Pass2PageEnd ==
    /\ phase = 2 /\ pc = "pageEnd"
    /\ bar' = [bar EXCEPT ![2] = @ + 1]
    /\ pi' = pi + 1
    /\ pc' = "page"
    /\ lines' = <<>>
    /\ UNCHANGED <<input, pages, uidBlock, referencedUID, discovered, phase, frames, cur,
                   update, ri, match, diag, dirs, files>>

\* pass2 returns; run calls pass3
Pass2Done ==
    /\ phase = 2 /\ pc = "page" /\ Pass2LoopDone(pi, Len(pages))
    /\ phase' = 3
    /\ pi' = 1
    /\ discovered' = referencedUID
    /\ UNCHANGED <<input, pages, uidBlock, referencedUID, pc, frames, cur, update, ri,
                   match, diag, lines, dirs, files, bar>>

(***************************************************************************)
(* Pass 3 (main.go:60-97).                                                 *)
(***************************************************************************)
\* filepath.Join(outDir, [ "daily", ] page.Title + ".md"), as path elements
Dest(page) ==
    IF page.IsDaily THEN <<outDir, "daily", page.Title \o Str_Md>>
    ELSE <<outDir, page.Title \o Str_Md>>

\* filepath.Dir
Dir(path) == SubSeq(path, 1, Len(path) - 1)

\* a page with an empty title is skipped
Pass3Skip ==
    /\ phase = 3 /\ pc = "page" /\ pi <= Len(pages)
    /\ pages[pi].Title = <<>>
    /\ pi' = pi + 1
    /\ UNCHANGED <<input, pages, uidBlock, referencedUID, discovered, phase, pc, frames,
                   cur, update, ri, match, diag, lines, dirs, files, bar>>

\* the directory of the page is made and its expansion starts; MkdirAll may
\* fail
Pass3Page ==
    /\ phase = 3 /\ pc = "page" /\ pi <= Len(pages)
    /\ pages[pi].Title # <<>>
    /\ \E ok \in BOOLEAN :
        IF ok
        THEN /\ dirs' = dirs \cup {Dir(Dest(pages[pi]))}
             /\ frames' = <<[kids |-> pages[pi].RawChildren, i |-> 1, level |-> 0]>>
             /\ lines' = <<>>
             /\ pc' = "expand"
        ELSE /\ pc' = "error"
             /\ UNCHANGED <<dirs, frames, lines>>
    /\ UNCHANGED <<input, pages, uidBlock, referencedUID, discovered, phase, pi, cur,
                   update, ri, match, diag, files, bar>>

\* the lines of the page are joined and written; WriteFile may fail
Pass3Write ==
    /\ phase = 3 /\ pc = "pageEnd"
    /\ \E ok \in BOOLEAN :
        IF ok
        THEN /\ files' = (Dest(pages[pi]) :> Join([k \in 1..Len(lines) |-> lines[k].s], <<NL>>))
                         @@ files
             /\ bar' = [bar EXCEPT ![3] = @ + 1]
             /\ pi' = pi + 1
             /\ pc' = "page"
             /\ lines' = <<>>
        ELSE /\ pc' = "error"
             /\ UNCHANGED <<files, bar, pi, lines>>
    /\ UNCHANGED <<input, pages, uidBlock, referencedUID, discovered, phase, frames, cur,
                   update, ri, match, diag, dirs>>

Pass3Done ==
    /\ phase = 3 /\ pc = "page" /\ pi > Len(pages)
    /\ pc' = "done"
    /\ UNCHANGED <<input, pages, uidBlock, referencedUID, discovered, phase, pi, frames,
                   cur, update, ri, match, diag, lines, dirs, files, bar>>

Next ==
    \/ Load
    \/ Pass1Page
    \/ Pass1Done
    \/ ExpandChild
    \/ ExpandReturn
    \/ RefsTry
    \/ DayFind
    \/ DayRewrite
    \/ Pass2Page
    \/ Pass2PageEnd
    \/ Pass2Done
    \/ Pass3Skip
    \/ Pass3Page
    \/ Pass3Write
    \/ Pass3Done

Spec == Init /\ [][Next]_vars

\* the program is sequential and never waits: it takes its next step
FairSpec == Spec /\ WF_vars(Next)

(***************************************************************************)
(* Notions the properties are stated with.                                 *)
(***************************************************************************)
\* the pass has left the reference loop of replaceBlockRefs for the current
\* block text: update holds the text with its references rewritten
RefsReturned == pc \in {"days", "rewrite"}

\* the offsets of s at which a reference to uid is written, in any syntax
\* (embed and mentions wrap the plain form)
RefOffsets(s, uid) == {off \in 0..Len(s) : StartsAt(s, off, Ref(uid))}

\* the UIDs the plain reference expression finds somewhere in s
RefUids(s) ==
    {Slice(s, off + Len(RefOpen), off + Len(RefOpen) + UidLen) :
        off \in {o \in 0..Len(s) : ReMatchesAt(regexList[3], s, o)}}

\* the UIDs of a forest of blocks
RECURSIVE TreeUids(_)
TreeUids(kids) ==
    IF kids = <<>> THEN {}
    ELSE {Head(kids).UID} \cup TreeUids(Head(kids).RawChildren) \cup TreeUids(Tail(kids))

\* the blocks of a forest in document order, each with its nesting level
RECURSIVE Preorder(_, _)
Preorder(kids, level) ==
    IF kids = <<>> THEN <<>>
    ELSE <<[uid |-> Head(kids).UID, level |-> level]>>
         \o Preorder(Head(kids).RawChildren, level + 1)
         \o Preorder(Tail(kids), level)

\* the number of places of s where the anchor of uid is written
AnchorCount(s, uid) ==
    Cardinality({off \in 0..Len(s) : StartsAt(s, off, <<" ", "^">> \o uid)})

(***************************************************************************)
(* C1.  When replaceBlockRefs has rewritten the references of a block      *)
(* text, no reference whose UID is a key of the index is left in the text, *)
(* every indexed UID the text referred to is in the referenced set, and a  *)
(* text that was only a plain reference ((id)) to an indexed block has     *)
(* become "<target text> [[<page title>#^<id>]]".                          *)
(***************************************************************************)
C1_ReferencesResolved ==
    RefsReturned =>
        /\ \A uid \in RefUids(update) : uid \notin DOMAIN uidBlock
        /\ \A uid \in RefUids(cur.child.String) :
              uid \in DOMAIN uidBlock => uid \in referencedUID
        /\ \A uid \in DOMAIN uidBlock :
              cur.child.String = Ref(uid) =>
                  update = uidBlock[uid].String \o <<" ">> \o LinkOpen
                           \o uidBlock[uid].Page.Title \o <<"#", "^">> \o uid \o LinkClose

(***************************************************************************)
(* C3.  After pass 1 a page whose title is a daily title with a valid date *)
(* has the title YYYY-MM-DD and its is-daily flag set, and pass 3 writes   *)
(* it to <outDir>/daily/<YYYY-MM-DD>.md; any other page keeps its title    *)
(* and a false flag and, if the title is not empty, is written to          *)
(* <outDir>/<title>.md.                                                    *)
(***************************************************************************)
C3_DailyPages ==
    \A i \in 1..Len(input) :
        LET r == parseRoamDate(input[i].Title)
            indexed == phase >= 1 /\ bar[1] >= i
            rendered == phase = 3 /\ (pi > i \/ pc = "done") /\ pages[i].Title # <<>>
        IN  /\ (indexed /\ r.ok) =>
                  /\ pages[i].Title = r.out
                  /\ pages[i].IsDaily
                  /\ rendered => <<outDir, "daily", r.out \o Str_Md>> \in DOMAIN files
            /\ (indexed /\ ~r.ok) =>
                  /\ pages[i].Title = input[i].Title
                  /\ ~pages[i].IsDaily
                  /\ rendered => <<outDir, input[i].Title \o Str_Md>> \in DOMAIN files

(***************************************************************************)
(* C5.  When replaceBlockRefs has gone through a block text, every         *)
(* reference of the text to a UID that is no key of the index is still in  *)
(* the text, one diagnostic line was printed for each such reference, and  *)
(* no such UID is in the referenced set.                                   *)
(***************************************************************************)
C5_UnknownLeftAlone ==
    RefsReturned =>
        \A uid \in RefUids(cur.child.String) :
            uid \notin DOMAIN uidBlock =>
                /\ RefOffsets(update, uid) # {}
                /\ Cardinality(RefOffsets(update, uid))
                       = Cardinality(RefOffsets(cur.child.String, uid))
                /\ diag = Cardinality(RefOffsets(cur.child.String, uid))
                /\ uid \notin referencedUID

(***************************************************************************)
(* C6.  The reference loop of replaceBlockRefs is always left: no block    *)
(* text of the documents refers to itself, directly or through others.     *)
(***************************************************************************)
C6_RescanTerminates == (pc = "refs") ~> (pc # "refs")

(***************************************************************************)
(* C9.  The loop of replaceDayLinks is always left, also on a link that    *)
(* the link expression accepts and the daily-title expression does not.    *)
(***************************************************************************)
C9_DayLinksTerminate == (pc \in {"days", "rewrite"}) ~> (pc \notin {"days", "rewrite"})

(***************************************************************************)
(* C10.  In a line rendered by pass 3, the title written in front of       *)
(* "#^<id>]]" for an indexed id is the title that the page holding the     *)
(* block <id> has after pass 1, the name its file is written under.        *)
(***************************************************************************)
C10_LinkTitleIsFileTitle ==
    phase = 3 =>
        \A k \in 1..Len(lines) : \A uid \in DOMAIN uidBlock :
            \A off \in 0..Len(lines[k].s) :
                StartsAt(lines[k].s, off, <<"#", "^">> \o uid \o LinkClose) =>
                    \E i \in 1..Len(pages) :
                        /\ uid \in TreeUids(pages[i].RawChildren)
                        /\ StartsAt(lines[k].s, off - Len(pages[i].Title) - Len(LinkOpen),
                                    LinkOpen \o pages[i].Title)

(***************************************************************************)
(* C2.  Every line rendered in pass 3 carries the anchor " ^<id>" of its   *)
(* own block exactly once, as its end, if the id is in the referenced set  *)
(* as pass 2 left it, and carries no such anchor otherwise.                *)
(***************************************************************************)
\* the line ends with the anchor of uid (a line of several rows ends with a
\* line break after it)
EndsWithAnchor(s, uid) ==
    LET a == <<" ", "^">> \o uid
        body == IF s # <<>> /\ s[Len(s)] = NL THEN SubSeq(s, 1, Len(s) - 1) ELSE s
    IN  StartsAt(body, Len(body) - Len(a), a)

C2_AnchorIffReferenced ==
    phase = 3 =>
        \A k \in 1..Len(lines) :
            IF lines[k].uid \in discovered
            THEN /\ AnchorCount(lines[k].s, lines[k].uid) = 1
                 /\ EndsWithAnchor(lines[k].s, lines[k].uid)
            ELSE AnchorCount(lines[k].s, lines[k].uid) = 0

\* pass 3 has rendered, with its anchor, a block of the first page that only
\* a block of the second page refers to, and a block without anchor
C2_Witness ==
    /\ phase = 3
    /\ Len(pages) = 2
    /\ U1 \in TreeUids(pages[1].RawChildren)
    /\ U1 \notin RefUids(Join([k \in 1..Len(pages[1].RawChildren) |->
                                   pages[1].RawChildren[k].String], <<NL>>))
    /\ \E k \in 1..Len(lines) :
          lines[k].uid = U1 /\ EndsWithAnchor(lines[k].s, U1) /\ U1 \in discovered
    /\ SrcUid(0) \notin discovered

(***************************************************************************)
(* C4.  No directory is made and no file written before pass 1 has gone    *)
(* through every page and pass 2 has expanded every page; pass 2 does not  *)
(* start before pass 1 is through; and a run that ends with an error       *)
(* before pass 3 has made and written nothing.                             *)
(***************************************************************************)
C4_PassesInOrder ==
    /\ (dirs # {} \/ DOMAIN files # {} \/ bar[3] > 0 \/ phase = 3) =>
           (bar[1] = Len(input) /\ bar[2] = Len(input))
    /\ (bar[2] > 0 \/ referencedUID # {} \/ phase = 2) => bar[1] = Len(input)
    /\ (pc = "error" /\ phase \in {0, 1, 2}) =>
           (dirs = {} /\ DOMAIN files = {} /\ bar[3] = 0)

\* a run over two pages has written a file
C4_Witness ==
    /\ Len(pages) = 2
    /\ DOMAIN files # {}
    /\ bar[1] = 2 /\ bar[2] = 2

(***************************************************************************)
(* C7.  A step of pass 2 or pass 3 leaves the index as it is, and a step   *)
(* of pass 3 leaves the referenced set as it is.                           *)
(***************************************************************************)
C7_ReadOnlyAfterBuild ==
    [][/\ phase \in {2, 3} => uidBlock' = uidBlock
       /\ phase = 3 => referencedUID' = referencedUID]_vars

\* pass 3 has resolved a reference again, with a page it skipped, and the
\* referenced set is the one pass 2 left
C7_Witness ==
    /\ pc = "done"
    /\ referencedUID # {}
    /\ referencedUID = discovered
    /\ \E i \in 1..Len(pages) : pages[i].Title = <<>>

(***************************************************************************)
(* C8.  The line of a block at level L with heading H starts with H "#"    *)
(* and a space if H > 0, then 4*L spaces, then "* " if and only if the     *)
(* block has a child and L > 0, and the resolved text follows; the lines   *)
(* of a page are its blocks in document order, children at level L+1       *)
(* right after their parent.                                               *)
(***************************************************************************)
C8_ExpectedPrefix(H, L, nkids) ==
    (IF H > 0 THEN [i \in 1..H |-> "#"] \o <<" ">> ELSE <<>>)
        \o [i \in 1..(4 * L) |-> " "]
        \o (IF nkids >= 1 /\ L > 0 THEN <<"*", " ">> ELSE <<>>)

C8_PrefixAndOrder ==
    /\ \A k \in 1..Len(lines) :
          LET l == lines[k]
              expect == C8_ExpectedPrefix(l.heading, l.level, l.nkids)
              first == IF NL \in Range(l.text)
                       THEN SubSeq(l.text, 1, (CHOOSE n \in 1..Len(l.text) :
                                /\ l.text[n] = NL
                                /\ \A j \in 1..(n - 1) : l.text[j] # NL) - 1)
                       ELSE l.text
          IN  StartsAt(l.s, 0, expect \o first)
    /\ pc \in {"expand", "refs", "days", "rewrite", "pageEnd"} =>
          LET order == Preorder(pages[pi].RawChildren, 0)
          IN  /\ Len(lines) <= Len(order)
              /\ \A k \in 1..Len(lines) :
                    lines[k].uid = order[k].uid /\ lines[k].level = order[k].level
              /\ pc = "pageEnd" => Len(lines) = Len(order)

\* a block at level 2 with a child is rendered with eight spaces and a
\* bullet, and a top-level block with a child without either
C8_Witness ==
    /\ pc = "pageEnd"
    /\ \E k \in 1..Len(lines) :
          /\ lines[k].level = 2 /\ lines[k].nkids > 0 /\ lines[k].heading = 0
          /\ StartsAt(lines[k].s, 0, <<" ", " ", " ", " ", " ", " ", " ", " ", "*", " ", "x">>)
    /\ \E k \in 1..Len(lines) :
          /\ lines[k].level = 0 /\ lines[k].nkids > 0 /\ lines[k].heading = 0
          /\ StartsAt(lines[k].s, 0, <<"x">>)

====
